---- MODULE Spec2Model ----
(***************************************************************************)
(* A model of the interactive MCP chat client (src/client.py): the         *)
(* key=value argument parser, the tool-result normaliser, the session      *)
(* bootstrapper, the tool listing and the dispatch loop of                 *)
(* run_memory_chat; and of the get_alerts tool of the weather server       *)
(* (src/weather.py).                                                       *)
(*                                                                         *)
(* Text is modelled as a sequence of one-character strings, so that        *)
(* trimming, lower-casing, regular-expression matching and truncation are  *)
(* computed character by character, as the Python code computes them.      *)
(***************************************************************************)
EXTENDS Integers, Sequences, FiniteSets, TLC

VARIABLES
    pc,             \* position of the process (or of the function under study)
    sessions,       \* client.sessions: the open session handles, in creation order
    session,        \* run_memory_chat's local `session`
    probes,         \* the bootstrap operations invoked so far, with their outcome
    closeCalls,     \* number of client.close_all_sessions() invocations
    listCalls,      \* number of invocations of a session listing operation
    tool_list_line, \* run_memory_chat's local `tool_list_line`
    linesRead,      \* number of lines input() has returned
    user_input,     \* run_memory_chat's local `user_input`
    tool,           \* run_memory_chat's local `tool` of the current line
    tail,           \* the argument of parse_kv_pairs
    pairs,          \* the mapping parse_kv_pairs returned
    res,            \* the argument of tool_result_to_str (call_tool's result)
    out,            \* the text tool_result_to_str returned
    printed,        \* what the current loop iteration printed
    calls,          \* invocation counts of call_tool, agent.run, clear_conversation_history
    nameIdx,        \* open_weather_session's position in the list of connect-like names
    lastOp,         \* the collaborator operation of the current line and how it ended
    usedSession,    \* the session handle the last call_tool was made on
    exc,            \* how the process ended: the exception that left run_memory_chat
    catalog,        \* the listing attribute list_tools_text found on the session
    nws             \* what make_nws_request returned to get_alerts

vars == << pc, sessions, session, probes, nameIdx, closeCalls, listCalls,
           tool_list_line, linesRead, user_input, tool, tail, pairs, res, out,
           printed, lastOp, calls, usedSession, exc, catalog, nws >>

----------------------------------------------------------------------------
(* Characters and Python's str helpers                                      *)

Lowers == << "a","b","c","d","e","f","g","h","i","j","k","l","m",
             "n","o","p","q","r","s","t","u","v","w","x","y","z" >>
Uppers == << "A","B","C","D","E","F","G","H","I","J","K","L","M",
             "N","O","P","Q","R","S","T","U","V","W","X","Y","Z" >>
Digits == << "0","1","2","3","4","5","6","7","8","9" >>

Range(f) == { f[i] : i \in DOMAIN f }

QUOTE == "\""

SpaceChars == { " ", "\t", "\n" }
UpperChars == Range(Uppers)
DigitChars == Range(Digits)
WordChars == Range(Lowers) \cup UpperChars \cup DigitChars \cup { "_" }

\* \s of the re module, for the characters the model uses
IsSpace(c) == c \in SpaceChars

\* \w of the re module, for the characters the model uses
IsWord(c) == c \in WordChars

IsDigit(c) == c \in DigitChars

DigitOf == [ c \in DigitChars |-> (CHOOSE i \in DOMAIN Digits : Digits[i] = c) - 1 ]
DigitVal(c) == DigitOf[c]

LowerOf == [ c \in UpperChars |-> Lowers[CHOOSE i \in DOMAIN Uppers : Uppers[i] = c] ]
LowerChar(c) == IF c \in UpperChars THEN LowerOf[c] ELSE c

\* str.lower()
Lower(s) == [ i \in 1..Len(s) |-> LowerChar(s[i]) ]

RECURSIVE FirstNot(_, _, _)
\* index of the first character at or after i that is not in drop, Len(s)+1 if none
FirstNot(s, i, drop) ==
    IF i > Len(s) THEN i
    ELSE IF s[i] \in drop THEN FirstNot(s, i + 1, drop) ELSE i

RECURSIVE LastNot(_, _, _)
\* index of the last character at or before i that is not in drop, 0 if none
LastNot(s, i, drop) ==
    IF i < 1 THEN 0
    ELSE IF s[i] \in drop THEN LastNot(s, i - 1, drop) ELSE i

\* str.strip(chars): drop leading and trailing characters of the set
StripChars(s, drop) ==
    LET a == FirstNot(s, 1, drop)
        b == LastNot(s, Len(s), drop)
    IN  IF a > b THEN << >> ELSE SubSeq(s, a, b)

\* str.strip()
Strip(s) == StripChars(s, SpaceChars)

\* s[:n]
Truncate(s, n) == IF Len(s) <= n THEN s ELSE SubSeq(s, 1, n)

\* str.startswith / str.endswith for a single character
StartsWith(s, c) == Len(s) >= 1 /\ s[1] = c
EndsWith(s, c) == Len(s) >= 1 /\ s[Len(s)] = c

----------------------------------------------------------------------------
(* Values of a parsed argument: a boolean, an integer or a string           *)

VBool(b) == [ t |-> "bool", b |-> b, n |-> 0, s |-> << >> ]
VInt(n)  == [ t |-> "int",  b |-> FALSE, n |-> n, s |-> << >> ]
VStr(s)  == [ t |-> "str",  b |-> FALSE, n |-> 0, s |-> s ]

RECURSIVE DigitsValue(_, _)
\* the number written by the digits s[1..i]
DigitsValue(s, i) ==
    IF i = 0 THEN 0 ELSE 10 * DigitsValue(s, i - 1) + DigitVal(s[i])

\* int(v) for a str v: surrounding whitespace is ignored, then an optional
\* sign and decimal digits; anything else raises ValueError
IntParse(v) ==
    LET w == Strip(v)
        signed == Len(w) >= 1 /\ w[1] \in { "+", "-" }
        d == IF signed THEN SubSeq(w, 2, Len(w)) ELSE w
    IN  IF Len(d) >= 1 /\ \A i \in 1..Len(d) : IsDigit(d[i])
        THEN [ ok |-> TRUE,
               n  |-> IF signed /\ w[1] = "-" THEN 0 - DigitsValue(d, Len(d))
                                              ELSE DigitsValue(d, Len(d)) ]
        ELSE [ ok |-> FALSE, n |-> 0 ]

----------------------------------------------------------------------------
(* parse_kv_pairs                                                           *)

NoMatch == [ ok |-> FALSE, k |-> << >>, raw |-> << >>, quoted |-> FALSE, stop |-> 0 ]

\* last index of the run of characters satisfying \w that starts at i
WordRunEnd(s, i) ==
    CHOOSE j \in i..Len(s) :
        /\ \A x \in i..j : IsWord(s[x])
        /\ (j = Len(s) \/ ~IsWord(s[j + 1]))

\* last index of the run of non-whitespace characters that starts at i
NonSpaceRunEnd(s, i) ==
    CHOOSE j \in i..Len(s) :
        /\ \A x \in i..j : ~IsSpace(s[x])
        /\ (j = Len(s) \/ IsSpace(s[j + 1]))

\* the match of  (\w+)=("([^"]*)"|[^\s]+)  that starts exactly at i, if any:
\* group 1 is k, group 2 is raw; quoted says that the first alternative matched
KvMatchAt(s, i) ==
    IF i > Len(s) \/ ~IsWord(s[i]) THEN NoMatch
    ELSE
      LET e == WordRunEnd(s, i)
          p == e + 2
      IN  IF e + 1 > Len(s) \/ s[e + 1] # "=" \/ p > Len(s) THEN NoMatch
          ELSE
            LET closing == { q \in (p + 1)..Len(s) : s[q] = QUOTE }
            IN  IF s[p] = QUOTE /\ closing # {}
                THEN LET q == CHOOSE x \in closing : \A y \in closing : x <= y
                     IN  [ ok |-> TRUE, k |-> SubSeq(s, i, e),
                           raw |-> SubSeq(s, p, q), quoted |-> TRUE, stop |-> q ]
                ELSE IF ~IsSpace(s[p])
                THEN LET r == NonSpaceRunEnd(s, p)
                     IN  [ ok |-> TRUE, k |-> SubSeq(s, i, e),
                           raw |-> SubSeq(s, p, r), quoted |-> FALSE, stop |-> r ]
                ELSE NoMatch

RECURSIVE KvFindIter(_, _)
\* re.finditer: the successive leftmost non-overlapping matches from position pos
KvFindIter(s, pos) ==
    LET starts == { i \in pos..Len(s) : KvMatchAt(s, i).ok }
    IN  IF starts = {} THEN << >>
        ELSE LET i == CHOOSE x \in starts : \A y \in starts : x <= y
                 m == KvMatchAt(s, i)
             IN  << m >> \o KvFindIter(s, m.stop + 1)

\* line 35: the surrounding quotes are removed when raw starts and ends with one
KvUnquote(raw) ==
    IF StartsWith(raw, QUOTE) /\ EndsWith(raw, QUOTE)
    THEN StripChars(raw, { QUOTE })
    ELSE raw

\* lines 36-42: boolean, else integer, else the string
KvCoerce(v) ==
    IF Lower(v) \in { << "t","r","u","e" >>, << "f","a","l","s","e" >> }
    THEN VBool(Lower(v) = << "t","r","u","e" >>)
    ELSE IF IntParse(v).ok THEN VInt(IntParse(v).n)
    ELSE VStr(v)

\* lines 33-42: the value stored for one match
KvValue(m) == KvCoerce(KvUnquote(m.raw))

RECURSIVE KvStore_FirstWins(_, _, _)
\* a variant in which a key that is already present keeps its first value
KvStore_FirstWins(ms, i, acc) ==
    IF i > Len(ms) THEN acc
    ELSE KvStore_FirstWins(ms, i + 1,
                 [ x \in DOMAIN acc \cup { ms[i].k } |->
                     IF x \in DOMAIN acc THEN acc[x] ELSE KvValue(ms[i]) ])

RECURSIVE KvStore(_, _, _)
\* line 43, for the matches ms[i..]: pairs[k] = v, a later match overwriting
KvStore(ms, i, acc) ==
    IF i > Len(ms) THEN acc
    ELSE KvStore(ms, i + 1,
                 [ x \in DOMAIN acc \cup { ms[i].k } |->
                     IF x = ms[i].k THEN KvValue(ms[i]) ELSE acc[x] ])

EmptyMap == [ x \in {} |-> VStr(<< >>) ]

\* line 40: int(v) raises ValueError for a text that is not an integer
KvIntError(v) == IF IntParse(v).ok THEN "none" ELSE "ValueError"

\* a variant in which the except clause catches nothing
KvCaught_Nothing(e) == FALSE

\* line 41: `except Exception` catches what int(v) raises
KvCaught(e) == e \in { "ValueError", "TypeError" }

\* lines 32-43: an exception leaves the loop over the matches
KvRaises(s) ==
    LET ms == KvFindIter(s, 1)
    IN  \E i \in 1..Len(ms) :
          LET v == KvUnquote(ms[i].raw)
          IN  /\ Lower(v) \notin { << "t","r","u","e" >>, << "f","a","l","s","e" >> }
              /\ KvIntError(v) # "none"
              /\ ~KvCaught(KvIntError(v))

parse_kv_pairs(s) == KvStore(KvFindIter(s, 1), 1, EmptyMap)

----------------------------------------------------------------------------
(* Tool results.  A result is a str, a plain dict (which has none of the    *)
(* attributes model_dump, dict and __dict__), or an object with a mapping  *)
(* view (model_dump(), dict() or __dict__) or none; str(res) is its repr.  *)
(* A mapping is a sequence of entries (a dict keeps insertion order).      *)

JNull    == [ t |-> "null", b |-> FALSE, n |-> 0, s |-> << >>, items |-> << >> ]
JBool(b) == [ t |-> "bool", b |-> b,     n |-> 0, s |-> << >>, items |-> << >> ]
JInt(n)  == [ t |-> "int",  b |-> FALSE, n |-> n, s |-> << >>, items |-> << >> ]
JStr(s)  == [ t |-> "str",  b |-> FALSE, n |-> 0, s |-> s,     items |-> << >> ]
JList(l) == [ t |-> "list", b |-> FALSE, n |-> 0, s |-> << >>, items |-> l ]

Entry(k, v) == [ key |-> k, val |-> v ]

\* an element of a content list: a dict, an object with text/content
\* attributes (JNull when the attribute is missing or None), or a scalar
PDict(es)   == [ pk |-> "dict",   entries |-> es,    text |-> JNull, content |-> JNull, v |-> JNull ]
PObj(tx, c) == [ pk |-> "obj",    entries |-> << >>, text |-> tx,    content |-> c,     v |-> JNull ]
PScalar(x)  == [ pk |-> "scalar", entries |-> << >>, text |-> JNull, content |-> JNull, v |-> x ]

RStr(s) == [ kind |-> "str", s |-> s, view |-> "none", data |-> << >>, repr |-> s ]
RObj(view, data, repr) ==
    [ kind |-> "obj", s |-> << >>, view |-> view, data |-> data, repr |-> repr ]

K_content == << "c", "o", "n", "t", "e", "n", "t" >>
K_outputs == << "o", "u", "t", "p", "u", "t", "s" >>
K_data    == << "d", "a", "t", "a" >>
K_type    == << "t", "y", "p", "e" >>
K_text    == << "t", "e", "x", "t" >>
S_text    == << "t", "e", "x", "t" >>
S_None    == << "N", "o", "n", "e" >>
S_True    == << "T", "r", "u", "e" >>
S_False   == << "F", "a", "l", "s", "e" >>
S_null    == << "n", "u", "l", "l" >>
S_true    == << "t", "r", "u", "e" >>
S_false   == << "f", "a", "l", "s", "e" >>

\* Python truth value
Truthy(v) ==
    CASE v.t = "null" -> FALSE
      [] v.t = "bool" -> v.b
      [] v.t = "int"  -> v.n # 0
      [] v.t = "str"  -> Len(v.s) > 0
      [] v.t = "list" -> Len(v.items) > 0

HasKey(es, k) == \E i \in 1..Len(es) : es[i].key = k

\* dict.get(k, default)
GetOr(es, k, default) ==
    IF HasKey(es, k)
    THEN es[CHOOSE i \in 1..Len(es) : es[i].key = k].val
    ELSE default

RECURSIVE NatToStr(_)
NatToStr(n) ==
    IF n < 10 THEN << Digits[n + 1] >>
    ELSE NatToStr(n \div 10) \o << Digits[(n % 10) + 1] >>

IntToStr(n) == IF n < 0 THEN << "-" >> \o NatToStr(0 - n) ELSE NatToStr(n)

\* str(x) for a scalar
PyStr(v) ==
    CASE v.t = "null" -> S_None
      [] v.t = "bool" -> IF v.b THEN S_True ELSE S_False
      [] v.t = "int"  -> IntToStr(v.n)
      [] v.t = "str"  -> v.s
      [] v.t = "list" -> << "[", "]" >>

RECURSIVE JoinLines(_, _)
\* "\n".join(ts[i..])
JoinLines(ts, i) ==
    IF i > Len(ts) THEN << >>
    ELSE IF i = Len(ts) THEN ts[i]
    ELSE ts[i] \o << "\n" >> \o JoinLines(ts, i + 1)

RECURSIVE JsonEscapeFrom(_, _)
JsonEscapeFrom(s, i) ==
    IF i > Len(s) THEN << >>
    ELSE (CASE s[i] = QUOTE -> << "\\", QUOTE >>
            [] s[i] = "\\"  -> << "\\", "\\" >>
            [] s[i] = "\n"  -> << "\\", "n" >>
            [] s[i] = "\t"  -> << "\\", "t" >>
            [] OTHER        -> << s[i] >>) \o JsonEscapeFrom(s, i + 1)

\* the body of a JSON string literal (ensure_ascii=False)
JsonEscape(s) ==
    IF \A i \in 1..Len(s) : s[i] \notin { QUOTE, "\\", "\n", "\t" }
    THEN s
    ELSE JsonEscapeFrom(s, 1)

JsonString(s) == << QUOTE >> \o JsonEscape(s) \o << QUOTE >>

JsonScalar(v) ==
    CASE v.t = "null" -> S_null
      [] v.t = "bool" -> IF v.b THEN S_true ELSE S_false
      [] v.t = "int"  -> IntToStr(v.n)
      [] v.t = "str"  -> JsonString(v.s)
      [] v.t = "list" -> << "[", "]" >>

RECURSIVE JsonEntries(_, _)
\* "key": value, "key": value, ... for the entries es[i..] of a dict of scalars
JsonEntries(es, i) ==
    IF i > Len(es) THEN << >>
    ELSE JsonString(es[i].key) \o << ":", " " >> \o JsonScalar(es[i].val)
         \o (IF i < Len(es) THEN << ",", " " >> \o JsonEntries(es, i + 1) ELSE << >>)

JsonPart(p) ==
    IF p.pk = "dict" THEN << "{" >> \o JsonEntries(p.entries, 1) \o << "}" >>
    ELSE JsonScalar(p.v)

RECURSIVE JsonItems(_, _)
JsonItems(l, i) ==
    IF i > Len(l) THEN << >>
    ELSE JsonPart(l[i])
         \o (IF i < Len(l) THEN << ",", " " >> \o JsonItems(l, i + 1) ELSE << >>)

JsonValue(v) ==
    IF v.t = "list" THEN << "[" >> \o JsonItems(v.items, 1) \o << "]" >>
    ELSE JsonScalar(v)

RECURSIVE JsonMembers(_, _)
JsonMembers(es, i) ==
    IF i > Len(es) THEN << >>
    ELSE JsonString(es[i].key) \o << ":", " " >> \o JsonValue(es[i].val)
         \o (IF i < Len(es) THEN << ",", " " >> \o JsonMembers(es, i + 1) ELSE << >>)

\* json.dumps raises TypeError for an object that is not a dict, list or scalar
JsonSerializable(data) ==
    \A i \in 1..Len(data) :
        data[i].val.t = "list" =>
            \A j \in 1..Len(data[i].val.items) : data[i].val.items[j].pk # "obj"

\* json.dumps(data, ensure_ascii=False) with the default separators
JsonDumps(data) == << "{" >> \o JsonMembers(data, 1) \o << "}" >>

RECURSIVE ReprEscapeFrom(_, _, _)
ReprEscapeFrom(s, i, q) ==
    IF i > Len(s) THEN << >>
    ELSE (CASE s[i] = q    -> << "\\", q >>
            [] s[i] = "\\" -> << "\\", "\\" >>
            [] s[i] = "\n" -> << "\\", "n" >>
            [] s[i] = "\t" -> << "\\", "t" >>
            [] OTHER       -> << s[i] >>) \o ReprEscapeFrom(s, i + 1, q)

\* repr(s) for a str: single quotes, or double quotes when the text holds a
\* single quote and no double quote
ReprString(s) ==
    LET q == IF (\E i \in 1..Len(s) : s[i] = "'") /\ (\A i \in 1..Len(s) : s[i] # QUOTE)
             THEN QUOTE ELSE "'"
    IN  << q >>
        \o (IF \A i \in 1..Len(s) : s[i] \notin { q, "\\", "\n", "\t" }
            THEN s ELSE ReprEscapeFrom(s, 1, q))
        \o << q >>

ReprScalar(v) == IF v.t = "str" THEN ReprString(v.s) ELSE PyStr(v)

RECURSIVE ReprEntries(_, _)
ReprEntries(es, i) ==
    IF i > Len(es) THEN << >>
    ELSE ReprString(es[i].key) \o << ":", " " >> \o ReprScalar(es[i].val)
         \o (IF i < Len(es) THEN << ",", " " >> \o ReprEntries(es, i + 1) ELSE << >>)

ReprPart(p) ==
    IF p.pk = "dict" THEN << "{" >> \o ReprEntries(p.entries, 1) \o << "}" >>
    ELSE ReprScalar(p.v)

RECURSIVE ReprItems(_, _)
ReprItems(l, i) ==
    IF i > Len(l) THEN << >>
    ELSE ReprPart(l[i])
         \o (IF i < Len(l) THEN << ",", " " >> \o ReprItems(l, i + 1) ELSE << >>)

ReprValue(v) ==
    IF v.t = "list" THEN << "[" >> \o ReprItems(v.items, 1) \o << "]" >>
    ELSE ReprScalar(v)

RECURSIVE ReprMembers(_, _)
ReprMembers(es, i) ==
    IF i > Len(es) THEN << >>
    ELSE ReprString(es[i].key) \o << ":", " " >> \o ReprValue(es[i].val)
         \o (IF i < Len(es) THEN << ",", " " >> \o ReprMembers(es, i + 1) ELSE << >>)

\* str(d) for a dict d of scalars, lists and dicts
PyRepr(data) == << "{" >> \o ReprMembers(data, 1) \o << "}" >>

\* a result that is a plain dict: hasattr finds no model_dump, dict or __dict__
RDict(data) ==
    [ kind |-> "dict", s |-> << >>, view |-> "none", data |-> data, repr |-> PyRepr(data) ]

----------------------------------------------------------------------------
(* tool_result_to_str                                                       *)

\* MAX of the slice at line 85
JSON_CAP == 3000

\* lines 57-62: the mapping view of a result that is not a str (None if none)
TrHasView(r) == r.view \in { "model_dump", "dict", "__dict__" }

\* line 66: data.get("content") or data.get("outputs") or data.get("data")
TrContent(data) ==
    LET c == GetOr(data, K_content, JNull)
        o == GetOr(data, K_outputs, JNull)
        d == GetOr(data, K_data, JNull)
    IN  IF Truthy(c) THEN c ELSE IF Truthy(o) THEN o ELSE d

\* lines 70-78: what one element of the content list appends to texts
TrPartTexts(p) ==
    CASE p.pk = "dict" ->
           IF GetOr(p.entries, K_type, JNull) = JStr(S_text)
           THEN << GetOr(p.entries, K_text, JStr(<< >>)) >>
           ELSE IF HasKey(p.entries, K_text)
           THEN << JStr(PyStr(GetOr(p.entries, K_text, JNull))) >>
           ELSE << >>
      [] p.pk = "obj" ->
           LET t == IF Truthy(p.text) THEN p.text ELSE p.content
           IN  IF Truthy(t) THEN << JStr(PyStr(t)) >> ELSE << >>
      [] p.pk = "scalar" -> << >>

RECURSIVE TrTexts(_, _)
\* lines 68-78: texts after the loop over content[i..]
TrTexts(l, i) ==
    IF i > Len(l) THEN << >> ELSE TrPartTexts(l[i]) \o TrTexts(l, i + 1)

\* line 79: (t for t in texts if t)
TrKept(texts) == SelectSeq(texts, Truthy)

\* line 79: "\n".join(...) raises TypeError when an item is not a str
TrJoinRaises(texts) ==
    \E i \in 1..Len(TrKept(texts)) : TrKept(texts)[i].t # "str"

\* line 79: "\n".join(t for t in texts if t).strip()
TrJoin(texts) ==
    LET kept == TrKept(texts)
    IN  Strip(JoinLines([ i \in 1..Len(kept) |-> kept[i].s ], 1))

Returned(text) == [ raised |-> FALSE, text |-> text ]
Raised == [ raised |-> TRUE, text |-> << >> ]

\* lines 83-90: the compact JSON of data cut to 3000 characters, str(res) when
\* json.dumps raises
TrFallback(r) ==
    IF JsonSerializable(r.data)
    THEN Returned(Truncate(JsonDumps(r.data), JSON_CAP))
    ELSE Returned(r.repr)

\* lines 50-90
tool_result_to_str(r) ==
    IF r.kind = "str" THEN Returned(r.s)
    ELSE IF TrHasView(r) /\ Len(r.data) > 0
    THEN LET content == TrContent(r.data)
         IN  IF content.t = "list"
             THEN LET texts == TrTexts(content.items, 1)
                  IN  IF TrJoinRaises(texts) THEN Raised
                      ELSE IF Len(TrJoin(texts)) > 0 THEN Returned(TrJoin(texts))
                      ELSE TrFallback(r)
             ELSE TrFallback(r)
    ELSE Returned(r.repr)

----------------------------------------------------------------------------
(* Bounds and inputs of the process                                         *)

\* lines the operator may type before the input ends
MaxLines == 2

NoSession == "none"
Handles == { "s1", "s2" }

\* a variant that tries connect_all before connect
ConnectNames_Swapped == << "connect_all", "connect", "open_all_sessions",
                           "ensure_sessions", "initialize" >>

\* line 112: the connect-like operations, in the order they are tried
ConnectNames == << "connect", "connect_all", "open_all_sessions",
                   "ensure_sessions", "initialize" >>

W_exit  == << "e", "x", "i", "t" >>
W_quit  == << "q", "u", "i", "t" >>
W_clear == << "c", "l", "e", "a", "r" >>
W_help  == << "h", "e", "l", "p" >>
W_ping  == << "p", "i", "n", "g" >>

\* what the operator may type (before input() result is stripped)
Lines ==
    { << "e", "x", "i", "t" >>, << " ", "Q", "U", "I", "T", " " >>, << "c", "l", "e", "a", "r" >>, << "H", "e", "l", "p" >>, << "e", "x", "i", "t", " ", "n", "o", "w" >>, << >>,
      << "@", "w", "e", "a", "t", "h", "e", "r", ".", "p", "i", "n", "g" >>, << "@", "o", "t", "h", "e", "r", ".", "p", "i", "n", "g" >>, << "@", "w", "e", "a", "t", "h", "e", "r", ".", "p", "i", "n", "g", "!" >>, << "@", "w", "e", "a", "t", "h", "e", "r" >>,
      << "@", "w", "e", "a", "t", "h", "e", "r", ".", "g", "e", "t", "_", "a", "l", "e", "r", "t", "s", " ", "s", "t", "a", "t", "e", "=", "\"", "C", "A", "\"", " ", "l", "i", "m", "i", "t", "=", "3" >>, << "h", "e", "l", "l", "o" >> }

T_pong  == << "P", "o", "n", "g", "!" >>
T_hello == << "h", "e", "l", "l", "o" >>
T_world == << "w", "o", "r", "l", "d" >>
T_reply == << "I", "t", " ", "i", "s", " ", "s", "u", "n", "n", "y", "." >>

TextPart(s) == PDict(<< Entry(K_type, JStr(S_text)), Entry(K_text, JStr(s)) >>)

\* what session.call_tool may return in the loop: a str, an MCP result with
\* two text parts, and a result whose text part holds a number
LoopResults ==
    { RStr(T_pong),
      RObj("model_dump", << Entry(K_content, JList(<< TextPart(T_hello), TextPart(T_world) >>)) >>, << "<", "r", ">" >>),
      RObj("model_dump", << Entry(K_content, JList(<< PDict(<< Entry(K_type, JStr(S_text)), Entry(K_text, JInt(5)) >>) >>)) >>, << "<", "r", ">" >>) }

\* line 230: tool_result_to_str(result), for the results of the loop
Rendered == [ r \in LoopResults |-> tool_result_to_str(r) ]

NoResult == RObj("none", << >>, << >>)
NoPrint == [ kind |-> "none", text |-> << >>, tool |-> << >> ]
NoOp == [ op |-> "none", outcome |-> "none" ]
NoCalls == [ call_tool |-> 0, run |-> 0, clear |-> 0 ]

\* make_nws_request has returned nothing yet
NoResponse == [ kind |-> "unset", feats |-> << >> ]

----------------------------------------------------------------------------
(* open_weather_session (lines 96-123)                                      *)

Probe(op, outcome) == [ op |-> op, outcome |-> outcome ]

\* the frame of the bootstrap steps
LoopUntouched ==
    UNCHANGED << closeCalls, listCalls, tool_list_line, linesRead, user_input,
                 tool, tail, pairs, res, out, printed, lastOp, calls, usedSession,
                 catalog, nws >>

\* a variant that returns the last existing session instead of the first
OWS_Existing_Last ==
    /\ pc = "open_weather_session"
    /\ sessions # << >>
    /\ session' = sessions[Len(sessions)]
    /\ pc' = "setup"
    /\ UNCHANGED << sessions, probes, nameIdx, exc >>
    /\ LoopUntouched

\* lines 102-105: the first existing session is returned
OWS_Existing ==
    /\ pc = "open_weather_session"
    /\ sessions # << >>
    /\ session' = sessions[1]
    /\ pc' = "setup"
    /\ UNCHANGED << sessions, probes, nameIdx, exc >>
    /\ LoopUntouched

\* lines 108-109: create_session("weather") exists and returns the session it
\* opened, which the client holds in client.sessions
OWS_Create ==
    /\ pc = "open_weather_session"
    /\ sessions = << >>
    /\ sessions' = << "s1" >>
    /\ probes' = Append(probes, Probe("create_session", "created"))
    /\ session' = "s1"
    /\ pc' = "setup"
    /\ UNCHANGED << nameIdx, exc >>
    /\ LoopUntouched

\* lines 108-109: create_session("weather") exists and raises
OWS_CreateRaises ==
    /\ pc = "open_weather_session"
    /\ sessions = << >>
    /\ probes' = Append(probes, Probe("create_session", "raised"))
    /\ pc' = "done"
    /\ exc' = "BootstrapError"
    /\ UNCHANGED << sessions, session, nameIdx >>
    /\ LoopUntouched

\* line 108: the client has no create_session; the fallback loop starts
OWS_NoCreate ==
    /\ pc = "open_weather_session"
    /\ sessions = << >>
    /\ probes' = Append(probes, Probe("create_session", "absent"))
    /\ pc' = "connect"
    /\ nameIdx' = 1
    /\ UNCHANGED << sessions, session, exc >>
    /\ LoopUntouched

\* lines 113-114: the client has no operation of this name
OWS_ConnectAbsent ==
    /\ pc = "connect"
    /\ nameIdx <= Len(ConnectNames)
    /\ probes' = Append(probes, Probe(ConnectNames[nameIdx], "absent"))
    /\ nameIdx' = nameIdx + 1
    /\ UNCHANGED << pc, sessions, session, exc >>
    /\ LoopUntouched

\* lines 115-121: the operation returns and client.sessions is still empty
OWS_ConnectNoop ==
    /\ pc = "connect"
    /\ nameIdx <= Len(ConnectNames)
    /\ probes' = Append(probes, Probe(ConnectNames[nameIdx], "noop"))
    /\ nameIdx' = nameIdx + 1
    /\ UNCHANGED << pc, sessions, session, exc >>
    /\ LoopUntouched

\* a variant without the re-check of client.sessions after the call
OWS_ConnectPopulates_NoRecheck ==
    /\ pc = "connect"
    /\ nameIdx <= Len(ConnectNames)
    /\ probes' = Append(probes, Probe(ConnectNames[nameIdx], "populated"))
    /\ sessions' = << "s1" >>
    /\ nameIdx' = nameIdx + 1
    /\ UNCHANGED << pc, session, exc >>
    /\ LoopUntouched

\* lines 115-121: the operation opened a session, which is returned
OWS_ConnectPopulates ==
    /\ pc = "connect"
    /\ nameIdx <= Len(ConnectNames)
    /\ probes' = Append(probes, Probe(ConnectNames[nameIdx], "populated"))
    /\ sessions' = << "s1" >>
    /\ session' = "s1"
    /\ pc' = "setup"
    /\ UNCHANGED << nameIdx, exc >>
    /\ LoopUntouched

\* lines 115-117: the operation raises; nothing in open_weather_session catches
OWS_ConnectRaises ==
    /\ pc = "connect"
    /\ nameIdx <= Len(ConnectNames)
    /\ probes' = Append(probes, Probe(ConnectNames[nameIdx], "raised"))
    /\ pc' = "done"
    /\ exc' = "BootstrapError"
    /\ UNCHANGED << sessions, session, nameIdx >>
    /\ LoopUntouched

\* a variant that returns None instead of raising
OWS_Fail_ReturnsNone ==
    /\ pc = "connect"
    /\ nameIdx > Len(ConnectNames)
    /\ pc' = "setup"
    /\ UNCHANGED << sessions, session, probes, nameIdx, exc >>
    /\ LoopUntouched

\* line 123: every name was tried; RuntimeError leaves run_memory_chat at line 168
OWS_Fail ==
    /\ pc = "connect"
    /\ nameIdx > Len(ConnectNames)
    /\ pc' = "done"
    /\ exc' = "NoSession"
    /\ UNCHANGED << sessions, session, probes, nameIdx >>
    /\ LoopUntouched

----------------------------------------------------------------------------
(* run_memory_chat (lines 159-243)                                          *)

BootUntouched == UNCHANGED << sessions, session, probes, nameIdx >>

\* line 168: open_weather_session has returned; its locals (the trace of what
\* it tried, its position in the list of names) are gone
BootReturned ==
    /\ probes' = << >>
    /\ nameIdx' = 0
    /\ UNCHANGED << sessions, session >>

\* lines 171-179: ChatGroq(...) and MCPAgent(...) are constructed
Setup ==
    /\ pc = "setup"
    /\ pc' = "list_tools"
    /\ BootReturned
    /\ UNCHANGED exc
    /\ LoopUntouched

\* lines 171-179: a constructor raises (a missing API key, say); these lines are
\* outside the try of line 193, so the finally clause does not run
SetupRaises ==
    /\ pc = "setup"
    /\ pc' = "done"
    /\ exc' = "SetupError"
    /\ BootReturned
    /\ LoopUntouched

\* lines 142, 153 and 185: the fixed line
FallbackLine == << "T", "o", "o", "l", "s", ":", " ", "g", "e", "t", "_", "a", "l", "e", "r", "t", "s", ",", " ", "p", "i", "n", "g" >>

\* "Tools: "
ToolsPrefix == << "T", "o", "o", "l", "s", ":", " " >>

\* a tool descriptor: a dict or an object, its name and tool fields (JNull when
\* missing or None) and its str()
TD(kind, name, toolv, repr) == [ dk |-> kind, name |-> name, tool |-> toolv, repr |-> repr ]

\* lines 147-151: t.get("name") or t.get("tool") or str(t), and the same with
\* getattr for a descriptor that is not a dict
LtName(t) ==
    IF Truthy(t.name) THEN t.name
    ELSE IF Truthy(t.tool) THEN t.tool
    ELSE JStr(t.repr)

\* lines 145-152: the names of the descriptors, the empty ones dropped
LtNames(tools) == SelectSeq([ i \in 1..Len(tools) |-> LtName(tools[i]) ], Truthy)

RECURSIVE LtJoin(_, _)
\* ", ".join(ns[i..])
LtJoin(ns, i) ==
    IF i > Len(ns) THEN << >>
    ELSE IF i = Len(ns) THEN ns[i].s
    ELSE ns[i].s \o << ",", " " >> \o LtJoin(ns, i + 1)

\* line 153: str.join raises TypeError when a name is not a str
LtJoinRaises(ns) == \E i \in 1..Len(ns) : ns[i].t # "str"

\* lines 141-153, and the except clause of lines 184-185: the line for the
\* tools the listing returned (<< >> stands for None and for an empty list)
LtLine(tools) ==
    IF Len(tools) = 0 THEN FallbackLine
    ELSE LET ns == LtNames(tools)
         IN  IF Len(ns) = 0 THEN FallbackLine
             ELSE IF LtJoinRaises(ns) THEN FallbackLine
             ELSE ToolsPrefix \o LtJoin(ns, 1)

T_brace == << "{", "}" >>
T_get_alerts == << "g", "e", "t", "_", "a", "l", "e", "r", "t", "s" >>

\* what a listing may hold: nothing, one named tool, two tools named by name
\* and by tool, a descriptor whose name is a number, a descriptor without name
TdLists ==
    { << >>,
      << TD("dict", JStr(W_ping), JNull, T_brace) >>,
      << TD("obj", JNull, JStr(T_get_alerts), T_brace), TD("dict", JStr(W_ping), JNull, T_brace) >>,
      << TD("dict", JInt(5), JNull, T_brace) >>,
      << TD("dict", JNull, JNull, T_brace) >> }

NoCatalog == [ op |-> "none", form |-> "none", value |-> << >> ]

\* line 134-136: the first of list_tools, get_tools, tools whose attribute is
\* truthy: a method, or (for tools) a property holding the descriptors
Catalogs ==
    { NoCatalog }
    \cup { [ op |-> o, form |-> "method", value |-> v ] :
             o \in { "list_tools", "get_tools", "tools" }, v \in TdLists }
    \cup { [ op |-> "tools", form |-> "property", value |-> v ] : v \in TdLists \ { << >> } }

LtFrame ==
    /\ UNCHANGED << closeCalls, linesRead, user_input, tool, tail, pairs, res, out,
                    printed, lastOp, calls, usedSession, nws >>
    /\ BootUntouched

\* lines 133-136: list_tools_text looks for a listing attribute on the session
LT_Probe ==
    /\ pc = "list_tools"
    /\ \E c \in Catalogs :
         /\ catalog' = c
         /\ pc' = IF c.op = "none" THEN "list_names" ELSE "list_call"
    /\ UNCHANGED << listCalls, tool_list_line, exc >>
    /\ LtFrame

\* lines 137-139: r = fn() and the await.  Calling the value of a property
\* raises TypeError; a method returns the tools, raises, or is interrupted.
\* Lines 184-185 catch an Exception and set the fixed line; an interrupt is
\* not caught, and these lines are outside the try of line 193
LT_Call ==
    /\ pc = "list_call"
    /\ listCalls' = listCalls + 1
    /\ \E outcome \in { "returns", "Exception", "Interrupt" } :
         /\ catalog.form = "property" => outcome = "Exception"
         /\ CASE outcome = "returns" ->
                   /\ pc' = "list_names"
                   /\ UNCHANGED << catalog, tool_list_line, exc >>
              [] outcome = "Exception" ->
                   /\ tool_list_line' = FallbackLine
                   /\ pc' = "input"
                   /\ catalog' = NoCatalog
                   /\ UNCHANGED exc
              [] outcome = "Interrupt" ->
                   /\ pc' = "done"
                   /\ exc' = "Interrupt"
                   /\ catalog' = NoCatalog
                   /\ UNCHANGED tool_list_line
    /\ LtFrame

\* lines 141-153 and 183-185: the line is built from the tools and cached
LT_Names ==
    /\ pc = "list_names"
    /\ tool_list_line' = LtLine(IF catalog.op = "none" THEN << >> ELSE catalog.value)
    /\ pc' = "input"
    /\ catalog' = NoCatalog
    /\ UNCHANGED << listCalls, exc >>
    /\ LtFrame

\* a variant that compares without lower()
IsExit_CaseSensitive(u) == u \in { W_exit, W_quit }

\* line 198
IsExit(u) == Lower(u) \in { W_exit, W_quit }
\* line 201
IsClear(u) == Lower(u) = W_clear
\* line 205
IsHelp(u) == Lower(u) = W_help

NoDirect == [ ok |-> FALSE, server |-> << >>, tool |-> << >>, tail |-> << >> ]

\* line 221: re.match(r'^@(\w+)\.(\w+)\b(.*)$', user_input); the groups are
\* the two maximal runs of word characters around the dot and the remainder
DirectMatch(u) ==
    IF Len(u) >= 2 /\ u[1] = "@" /\ IsWord(u[2])
    THEN LET e == WordRunEnd(u, 2)
         IN  IF e + 2 <= Len(u) /\ u[e + 1] = "." /\ IsWord(u[e + 2])
                /\ \A i \in 1..Len(u) : u[i] # "\n"
             THEN LET f == WordRunEnd(u, e + 2)
                  IN  [ ok |-> TRUE, server |-> SubSeq(u, 2, e),
                        tool |-> SubSeq(u, e + 2, f), tail |-> SubSeq(u, f + 1, Len(u)) ]
             ELSE NoDirect
    ELSE NoDirect

\* a variant in which the except clauses catch nothing
Caught_Nothing(e) == FALSE

\* lines 227 and 238: `except Exception` catches an error, not an interrupt
\* (KeyboardInterrupt and CancelledError derive from BaseException)
Caught(e) == e = "Exception"

\* line 195: input() returned a line; the locals of the iteration are rebound
ReadLine(line) ==
    /\ pc = "input"
    /\ linesRead < MaxLines
    /\ linesRead' = linesRead + 1
    /\ user_input' = Strip(line)

NoDirectLocals ==
    /\ tool' = << >>
    /\ tail' = << >>
    /\ pairs' = EmptyMap
    /\ res' = NoResult
    /\ out' = << >>
    /\ UNCHANGED usedSession

LoopFrame ==
    UNCHANGED << closeCalls, listCalls, tool_list_line, catalog, nws >> /\ BootUntouched

\* lines 198-200: exit or quit ends the loop
HandleExit ==
    /\ \E line \in Lines : ReadLine(line) /\ IsExit(Strip(line))
    /\ printed' = [ NoPrint EXCEPT !.kind = "ending" ]
    /\ lastOp' = NoOp
    /\ pc' = "finally"
    /\ exc' = "none"
    /\ NoDirectLocals
    /\ UNCHANGED calls
    /\ LoopFrame

\* lines 201-204: clear; agent.clear_conversation_history() is not inside a
\* try, so when it raises the exception leaves the loop
HandleClear ==
    /\ \E line \in Lines :
         ReadLine(line) /\ ~IsExit(Strip(line)) /\ IsClear(Strip(line))
    /\ calls' = [ calls EXCEPT !.clear = @ + 1 ]
    /\ \E outcome \in { "ok", "Exception" } :
         /\ lastOp' = [ op |-> "clear", outcome |-> outcome ]
         /\ IF outcome = "ok"
            THEN /\ printed' = [ NoPrint EXCEPT !.kind = "cleared" ]
                 /\ pc' = "input"
                 /\ UNCHANGED exc
            ELSE /\ printed' = NoPrint
                 /\ pc' = "finally"
                 /\ exc' = "LoopError"
    /\ NoDirectLocals
    /\ LoopFrame

\* lines 205-218: help prints the cached tool line and the usage text
HandleHelp ==
    /\ \E line \in Lines :
         /\ ReadLine(line)
         /\ ~IsExit(Strip(line)) /\ ~IsClear(Strip(line)) /\ IsHelp(Strip(line))
    /\ printed' = [ kind |-> "help", text |-> tool_list_line, tool |-> << >> ]
    /\ lastOp' = NoOp
    /\ pc' = "input"
    /\ NoDirectLocals
    /\ UNCHANGED << calls, exc >>
    /\ LoopFrame

\* a variant that routes by the server name: a server other than weather
\* gets the last session of the client
HandleDirect_RoutedByServer ==
    /\ \E line \in Lines :
         LET u == Strip(line)
             m == DirectMatch(u)
         IN  /\ ReadLine(line)
             /\ ~IsExit(u) /\ ~IsClear(u) /\ ~IsHelp(u)
             /\ m.ok
             /\ tool' = m.tool
             /\ tail' = m.tail
             /\ usedSession' = IF m.server = << "w", "e", "a", "t", "h", "e", "r" >> THEN session
                               ELSE sessions[Len(sessions)]
    /\ pairs' = parse_kv_pairs(tail')
    /\ calls' = [ calls EXCEPT !.call_tool = @ + 1 ]
    /\ \/ \E r \in LoopResults :
            /\ res' = r
            /\ IF Rendered[r].raised
               THEN /\ lastOp' = [ op |-> "tool_result_to_str", outcome |-> "Exception" ]
                    /\ out' = << >>
                    /\ printed' = NoPrint
                    /\ pc' = "finally"
                    /\ exc' = "LoopError"
               ELSE /\ lastOp' = [ op |-> "call_tool", outcome |-> "ok" ]
                    /\ out' = Rendered[r].text
                    /\ printed' = [ kind |-> "assistant", text |-> out', tool |-> << >> ]
                    /\ pc' = "input"
                    /\ UNCHANGED exc
       \/ \E e \in { "Exception", "Interrupt" } :
            /\ res' = NoResult
            /\ out' = << >>
            /\ lastOp' = [ op |-> "call_tool", outcome |-> e ]
            /\ IF Caught(e)
               THEN /\ printed' = [ kind |-> "tool_error", text |-> << >>, tool |-> tool' ]
                    /\ pc' = "input"
                    /\ UNCHANGED exc
               ELSE /\ printed' = NoPrint
                    /\ pc' = "finally"
                    /\ exc' = IF e = "Interrupt" THEN "Interrupt" ELSE "LoopError"
    /\ LoopFrame

\* lines 221-231: the direct tool call.  call_tool returns a result, raises an
\* error, or is interrupted; the result is rendered in the else clause of the
\* try, where nothing catches what tool_result_to_str raises
HandleDirect ==
    /\ \E line \in Lines :
         LET u == Strip(line)
             m == DirectMatch(u)
         IN  /\ ReadLine(line)
             /\ ~IsExit(u) /\ ~IsClear(u) /\ ~IsHelp(u)
             /\ m.ok
             /\ tool' = m.tool
             /\ tail' = m.tail
    /\ pairs' = parse_kv_pairs(tail')
    /\ calls' = [ calls EXCEPT !.call_tool = @ + 1 ]
    /\ usedSession' = session
    /\ \/ \E r \in LoopResults :
            /\ res' = r
            /\ IF Rendered[r].raised
               THEN /\ lastOp' = [ op |-> "tool_result_to_str", outcome |-> "Exception" ]
                    /\ out' = << >>
                    /\ printed' = NoPrint
                    /\ pc' = "finally"
                    /\ exc' = "LoopError"
               ELSE /\ lastOp' = [ op |-> "call_tool", outcome |-> "ok" ]
                    /\ out' = Rendered[r].text
                    /\ printed' = [ kind |-> "assistant", text |-> out', tool |-> << >> ]
                    /\ pc' = "input"
                    /\ UNCHANGED exc
       \/ \E e \in { "Exception", "Interrupt" } :
            /\ res' = NoResult
            /\ out' = << >>
            /\ lastOp' = [ op |-> "call_tool", outcome |-> e ]
            /\ IF Caught(e)
               THEN /\ printed' = [ kind |-> "tool_error", text |-> << >>, tool |-> tool' ]
                    /\ pc' = "input"
                    /\ UNCHANGED exc
               ELSE /\ printed' = NoPrint
                    /\ pc' = "finally"
                    /\ exc' = IF e = "Interrupt" THEN "Interrupt" ELSE "LoopError"
    /\ LoopFrame

\* a variant that runs the agent a second time when the first run fails
HandleAgent_RetryOnce ==
    /\ \E line \in Lines :
         /\ ReadLine(line)
         /\ ~IsExit(Strip(line)) /\ ~IsClear(Strip(line)) /\ ~IsHelp(Strip(line))
         /\ ~DirectMatch(Strip(line)).ok
    /\ \E e \in { "ok", "Exception" } :
         /\ lastOp' = [ op |-> "run", outcome |-> e ]
         /\ calls' = [ calls EXCEPT !.run = IF e = "ok" THEN @ + 1 ELSE @ + 2 ]
         /\ printed' = IF e = "ok"
                       THEN [ kind |-> "assistant", text |-> T_reply, tool |-> << >> ]
                       ELSE [ NoPrint EXCEPT !.kind = "agent_error" ]
    /\ pc' = "input"
    /\ UNCHANGED exc
    /\ NoDirectLocals
    /\ LoopFrame

\* lines 233-239: every other line goes to the agent
HandleAgent ==
    /\ \E line \in Lines :
         /\ ReadLine(line)
         /\ ~IsExit(Strip(line)) /\ ~IsClear(Strip(line)) /\ ~IsHelp(Strip(line))
         /\ ~DirectMatch(Strip(line)).ok
    /\ calls' = [ calls EXCEPT !.run = @ + 1 ]
    /\ \E e \in { "ok", "Exception", "Interrupt" } :
         /\ lastOp' = [ op |-> "run", outcome |-> e ]
         /\ IF e = "ok"
            THEN /\ printed' = [ kind |-> "assistant", text |-> T_reply, tool |-> << >> ]
                 /\ pc' = "input"
                 /\ UNCHANGED exc
            ELSE IF Caught(e)
            THEN /\ printed' = [ NoPrint EXCEPT !.kind = "agent_error" ]
                 /\ pc' = "input"
                 /\ UNCHANGED exc
            ELSE /\ printed' = NoPrint
                 /\ pc' = "finally"
                 /\ exc' = IF e = "Interrupt" THEN "Interrupt" ELSE "LoopError"
    /\ NoDirectLocals
    /\ LoopFrame

\* line 195: input() raises EOFError at the end of the input, or
\* KeyboardInterrupt; neither is caught, and both leave through the finally
InputEnds ==
    /\ pc = "input"
    /\ \E e \in { "EOF", "Interrupt" } : exc' = e
    /\ pc' = "finally"
    /\ UNCHANGED << linesRead, user_input, tool, tail, pairs, res, out, printed,
                    lastOp, calls, usedSession >>
    /\ LoopFrame

\* line 242: the sessions are closed only when client.sessions is non-empty
MustClose == sessions # << >>

\* lines 241-243: the finally clause
Finally ==
    /\ pc = "finally"
    /\ IF MustClose
       THEN /\ closeCalls' = closeCalls + 1
            /\ sessions' = << >>
       ELSE UNCHANGED << closeCalls, sessions >>
    /\ pc' = "done"
    /\ UNCHANGED << session, probes, nameIdx, listCalls, tool_list_line, linesRead,
                    user_input, tool, tail, pairs, res, out, printed, lastOp, calls,
                    usedSession, exc, catalog, nws >>

\* lines 249-250: asyncio.run(run_memory_chat()) is not inside a try, so an
\* exception that leaves run_memory_chat ends the interpreter with a traceback
\* and status 1 (130 for KeyboardInterrupt); a return ends it with status 0
ExitCode ==
    CASE exc = "none"      -> 0
      [] exc = "Interrupt" -> 130
      [] OTHER             -> 1

\* line 167: the client as MCPClient.from_config_file built it; it may already
\* hold sessions
Init ==
    /\ pc = "open_weather_session"
    /\ sessions \in { << >>, << "s1" >>, << "s2", "s1" >> }
    /\ session = NoSession
    /\ probes = << >>
    /\ nameIdx = 0
    /\ closeCalls = 0
    /\ listCalls = 0
    /\ tool_list_line = << >>
    /\ catalog = NoCatalog
    /\ nws = NoResponse
    /\ linesRead = 0
    /\ user_input = << >>
    /\ tool = << >>
    /\ tail = << >>
    /\ pairs = EmptyMap
    /\ res = NoResult
    /\ out = << >>
    /\ printed = NoPrint
    /\ lastOp = NoOp
    /\ calls = NoCalls
    /\ usedSession = NoSession
    /\ exc = "none"

Next ==
    \/ OWS_Existing
    \/ OWS_Create
    \/ OWS_CreateRaises
    \/ OWS_NoCreate
    \/ OWS_ConnectAbsent
    \/ OWS_ConnectNoop
    \/ OWS_ConnectPopulates
    \/ OWS_ConnectRaises
    \/ OWS_Fail
    \/ Setup
    \/ SetupRaises
    \/ LT_Probe
    \/ LT_Call
    \/ LT_Names
    \/ HandleExit
    \/ HandleClear
    \/ HandleHelp
    \/ HandleDirect
    \/ HandleAgent
    \/ InputEnds
    \/ Finally

Spec == Init /\ [][Next]_vars

----------------------------------------------------------------------------
(* parse_kv_pairs on its own: the tails it is applied to                    *)

\* fragments of a tail
MaxFrags == 2

KvKeys == { << "a" >>, << "b" >> }

\* the text after key= : unquoted words, numbers and booleans, a lone quote,
\* and double-quoted strings
KvValues ==
    { << "t", "r", "u", "e" >>, << "T", "R", "U", "E" >>, << "5" >>, << "-", "3" >>, << "C", "A" >>, << "\"" >>,
      << "\"", "C", "A", "\"" >>, << "\"", "t", "r", "u", "e", "\"" >>, << "\"", "5", "\"" >>, << "\"", "a", " ", "b", "\"" >> }

\* a key with nothing after the = sign, free text, punctuation, and a value
\* without a key
KvJunk == { << "k", "=" >>, << "f", "r", "e", "e" >>, << "!", "!", "!" >>, << "=", "5" >> }

KvFragments == { k \o << "=" >> \o v : k \in KvKeys, v \in KvValues } \cup KvJunk

RECURSIVE RenderTail(_, _)
\* the fragments fs[i..], each after one space, as the tail of a command line
RenderTail(fs, i) ==
    IF i > Len(fs) THEN << >> ELSE << " " >> \o fs[i] \o RenderTail(fs, i + 1)

Tails == { RenderTail(fs, 1) : fs \in UNION { [ 1..n -> KvFragments ] : n \in 0..MaxFrags } }

\* the variables of the process, at rest while a function is studied alone
ProcessIdle ==
    /\ sessions = << >>
    /\ session = NoSession
    /\ probes = << >>
    /\ nameIdx = 0
    /\ closeCalls = 0
    /\ listCalls = 0
    /\ tool_list_line = << >>
    /\ catalog = NoCatalog
    /\ linesRead = 0
    /\ user_input = << >>
    /\ tool = << >>
    /\ printed = NoPrint
    /\ lastOp = NoOp
    /\ calls = NoCalls
    /\ usedSession = NoSession
    /\ exc = "none"

ProcessUntouched ==
    UNCHANGED << sessions, session, probes, nameIdx, closeCalls, listCalls,
                 tool_list_line, linesRead, user_input, tool, printed, lastOp,
                 calls, usedSession, exc, catalog >>

Init_KV ==
    /\ pc = "parse_kv_pairs"
    /\ nws = NoResponse
    /\ tail \in Tails
    /\ pairs = EmptyMap
    /\ res = NoResult
    /\ out = << >>
    /\ ProcessIdle

\* lines 26-44: parse_kv_pairs(tail) returns, or an exception leaves it
KV_Return ==
    /\ pc = "parse_kv_pairs"
    /\ IF KvRaises(tail)
       THEN pc' = "kv_raised" /\ UNCHANGED pairs
       ELSE pc' = "kv_returned" /\ pairs' = parse_kv_pairs(tail)
    /\ UNCHANGED << tail, res, out, nws >>
    /\ ProcessUntouched

Next_KV == KV_Return

SpecKV == Init_KV /\ [][Next_KV]_vars

----------------------------------------------------------------------------
(* tool_result_to_str on its own: the results it is applied to              *)

\* length of the long texts: one more than the cap of line 85
LongLen == 3001

LongText == [ i \in 1..LongLen |-> "x" ]
T_pad    == << " ", " ", "h", "i", " ", "\n" >>
T_repr   == << "<", "r", "e", "s", "u", "l", "t", ">" >>
K_meta    == << "m", "e", "t", "a" >>
K_isError == << "i", "s", "E", "r", "r", "o", "r" >>
S_image   == << "i", "m", "a", "g", "e" >>

TrStrings == { << >>, T_hello, T_pad, LongText }

\* content lists: text parts, a long text part, a part without text, a part
\* with a text key only, a text part holding a number, attribute-bearing
\* objects, the empty list, blank text, a bare string, padded text, a null text
TrLists ==
    { << TextPart(T_hello), TextPart(T_world) >>,
      << TextPart(LongText) >>,
      << PDict(<< Entry(K_type, JStr(S_image)) >>) >>,
      << PDict(<< Entry(K_text, JInt(5)) >>) >>,
      << PDict(<< Entry(K_type, JStr(S_text)), Entry(K_text, JInt(5)) >>) >>,
      << PObj(JStr(T_hello), JNull), PObj(JNull, JStr(T_world)) >>,
      << >>,
      << TextPart(<< " " >>) >>,
      << PScalar(JStr(T_hello)) >>,
      << TextPart(T_pad) >>,
      << PDict(<< Entry(K_type, JStr(S_text)), Entry(K_text, JNull) >>), TextPart(T_hello) >> }

TrDatas ==
    { << Entry(K_content, JList(l)) >> : l \in TrLists }
    \cup
    { << Entry(K_outputs, JList(<< TextPart(T_hello), TextPart(T_world) >>)) >>,
      << Entry(K_data, JList(<< TextPart(T_hello), TextPart(T_world) >>)) >>,
      << Entry(K_content, JList(<< >>)), Entry(K_outputs, JList(<< TextPart(T_world) >>)) >>,
      << Entry(K_content, JStr(T_hello)) >>,
      << >>,
      << Entry(K_meta, JStr(LongText)) >>,
      << Entry(K_isError, JBool(FALSE)) >> }

TrViews == { "model_dump", "dict", "__dict__", "none" }

\* the mappings of the results that are plain dicts
TrDicts ==
    { << Entry(K_content, JList(<< TextPart(T_hello), TextPart(T_world) >>)) >>,
      << Entry(K_outputs, JList(<< TextPart(T_hello), TextPart(T_world) >>)) >>,
      << >>,
      << Entry(K_isError, JBool(FALSE)) >> }

TrResults ==
    { RStr(s) : s \in TrStrings }
    \cup { RObj(v, d, r) : v \in TrViews, d \in TrDatas, r \in { T_repr, LongText } }
    \cup { RDict(d) : d \in TrDicts }

Init_TR ==
    /\ pc = "tool_result_to_str"
    /\ nws = NoResponse
    /\ res \in TrResults
    /\ out = << >>
    /\ tail = << >>
    /\ pairs = EmptyMap
    /\ ProcessIdle

\* lines 50-90: tool_result_to_str(res) returns its text
TR_Return ==
    /\ pc = "tool_result_to_str"
    /\ ~tool_result_to_str(res).raised
    /\ out' = tool_result_to_str(res).text
    /\ pc' = "tr_returned"
    /\ UNCHANGED << res, tail, pairs, nws >>
    /\ ProcessUntouched

\* line 79: the join raises and nothing in tool_result_to_str catches it
TR_Raise ==
    /\ pc = "tool_result_to_str"
    /\ tool_result_to_str(res).raised
    /\ pc' = "tr_raised"
    /\ UNCHANGED << res, out, tail, pairs, nws >>
    /\ ProcessUntouched

Next_TR == TR_Return \/ TR_Raise

SpecTR == Init_TR /\ [][Next_TR]_vars

----------------------------------------------------------------------------
(* get_alerts of the weather server (src/weather.py), on its own           *)

\* weather.py line 12
MAX_CHARS == 3000
\* weather.py line 13
MAX_ITEMS == 20

\* the characters U+2022 (bullet), U+2014 (em dash) and U+2026 (ellipsis) of
\* lines 45 and 48: one character each, written in ASCII here
BULLET == "*"
EMDASH == "-"
ELLIPSIS == "~"

K_limit == << "l", "i", "m", "i", "t" >>
K_event_filter == << "e", "v", "e", "n", "t", "_", "f", "i", "l", "t", "e", "r" >>
K_include_expires == << "i", "n", "c", "l", "u", "d", "e", "_", "e", "x", "p", "i", "r", "e", "s" >>

M_unable == << "U", "n", "a", "b", "l", "e", " ", "t", "o", " ", "f", "e", "t", "c", "h", " ", "a", "l", "e", "r", "t", "s", " ", "o", "r", " ", "n", "o", " ", "a", "l", "e", "r", "t", "s", " ", "f", "o", "u", "n", "d", "." >>
M_no_active == << "N", "o", " ", "a", "c", "t", "i", "v", "e", " ", "a", "l", "e", "r", "t", "s", " ", "f", "o", "r", " ", "t", "h", "i", "s", " ", "s", "t", "a", "t", "e", "." >>
M_no_match_open == << "N", "o", " ", "m", "a", "t", "c", "h", "i", "n", "g", " ", "a", "l", "e", "r", "t", "s", " ", "f", "o", "r", " ", "f", "i", "l", "t", "e", "r", " ", "'" >>
M_no_match_close == << "'", "." >>
M_no_matching == << "N", "o", " ", "m", "a", "t", "c", "h", "i", "n", "g", " ", "a", "l", "e", "r", "t", "s", "." >>
M_until == << " ", "(", "u", "n", "t", "i", "l", " " >>
M_na == << "N", "/", "A" >>

Max(a, b) == IF a >= b THEN a ELSE b
Min(a, b) == IF a <= b THEN a ELSE b

\* int(v) of line 36 for an int, a bool or a str
GaInt(v) ==
    CASE v.t = "int"  -> [ ok |-> TRUE, n |-> v.n ]
      [] v.t = "bool" -> [ ok |-> TRUE, n |-> IF v.b THEN 1 ELSE 0 ]
      [] v.t = "str"  -> IntParse(v.s)

\* lines 34-38
_to_int(v, default) ==
    IF GaInt(v).ok THEN Max(1, Min(GaInt(v).n, MAX_ITEMS)) ELSE default

\* lines 27-32
_to_bool(v) ==
    CASE v.t = "bool" -> v.b
      [] v.t = "str"  -> Lower(Strip(v.s)) \in { << "1" >>, S_true, << "y", "e", "s" >>, << "y" >> }
      [] v.t = "int"  -> v.n # 0

\* an alert: the event, areaDesc and ends of its properties
Feature(ev, area, ends) == [ event |-> ev, areaDesc |-> area, ends |-> ends ]

\* lines 40-48
_brief_alert(f, include_expires) ==
    LET area == IF Len(f.areaDesc) > 120
                THEN SubSeq(f.areaDesc, 1, 117) \o << ELLIPSIS >>
                ELSE f.areaDesc
        ends == IF Len(f.ends) > 0 THEN f.ends ELSE M_na
        tl   == IF include_expires THEN M_until \o ends \o << ")" >> ELSE << >>
    IN  << BULLET, " " >> \o f.event \o << " ", EMDASH, " " >> \o area \o tl

\* q in s, for two str
Contains(q, s) ==
    \E i \in 1..(Len(s) - Len(q) + 1) : SubSeq(s, i, i + Len(q) - 1) = q

\* an argument of the call, or the default of the signature (lines 65-67)
GaArg(args, k, default) == IF k \in DOMAIN args THEN args[k] ELSE default

\* lines 73-98, after make_nws_request has returned data
get_alerts(args, data) ==
    LET event_filter == GaArg(args, K_event_filter, VStr(<< >>))
        limit == GaArg(args, K_limit, VInt(5))
        include_expires == GaArg(args, K_include_expires, VBool(TRUE))
    IN  IF data.kind # "features" THEN M_unable
        ELSE IF Len(data.feats) = 0 THEN M_no_active
        ELSE
          LET q == Lower(event_filter.s)
              feats == IF Len(event_filter.s) > 0
                       THEN SelectSeq(data.feats, LAMBDA f : Contains(q, Lower(f.event)))
                       ELSE data.feats
          IN  IF Len(feats) = 0
              THEN M_no_match_open \o event_filter.s \o M_no_match_close
              ELSE
                LET n == _to_int(limit, 5)
                    inc == _to_bool(include_expires)
                    kept == SubSeq(feats, 1, Min(n, Len(feats)))
                    lines == [ i \in 1..Len(kept) |-> _brief_alert(kept[i], inc) ]
                    joined == JoinLines(lines, 1)
                IN  Truncate(IF Len(joined) > 0 THEN joined ELSE M_no_matching, MAX_CHARS)

\* alerts in a response
MaxFeats == 21

F_short == Feature(<< "H", "e", "a", "t", " ", "A", "d", "v", "i", "s", "o", "r", "y" >>, << "L", "A" >>, << >>)
F_longarea == Feature(<< "F", "l", "o", "o", "d", " ", "W", "a", "t", "c", "h" >>, [ i \in 1..130 |-> "a" ], << "2", "0", "2", "4" >>)
F_longevent == Feature(<< "H", "e", "a", "t" >> \o [ i \in 1..196 |-> "x" ], << "L", "A" >>, << >>)

\* the limit argument: integers around the bounds, texts, a boolean
GaLimits ==
    { VInt(0 - 3), VInt(0), VInt(1), VInt(5), VInt(20), VInt(21), VInt(100),
      VStr(<< "7" >>), VStr(<< " ", "2", "0", " " >>), VStr(<< "2", "5" >>),
      VStr(<< "-", "1" >>), VStr(<< "a", "b", "c" >>), VStr(<< "3", ".", "5" >>),
      VBool(TRUE) }

\* the event_filter argument: a word, and a long text that matches no event
GaFilters == { VStr(<< "h", "e", "a", "t" >>), VStr(LongText) }

GaIncludes == { VStr(<< "n", "o" >>) }

\* a mapping with the optional argument k drawn from vs, or without it
GaWith(k, vs) == { [ x \in { k } |-> v ] : v \in vs } \cup { EmptyMap }

\* the union of three mappings with distinct keys
GaMerge(a, b, c) ==
    [ x \in DOMAIN a \cup DOMAIN b \cup DOMAIN c |->
        IF x \in DOMAIN a THEN a[x] ELSE IF x \in DOMAIN b THEN b[x] ELSE c[x] ]

GaArgs ==
    { GaMerge(a, b, c) : a \in GaWith(K_limit, GaLimits),
                         b \in GaWith(K_event_filter, GaFilters),
                         c \in GaWith(K_include_expires, GaIncludes) }

\* what make_nws_request returns: None, a document without features, or one
\* with up to MaxFeats alerts of one kind, or two alerts of different kinds
GaResponses ==
    { [ kind |-> "none", feats |-> << >> ], [ kind |-> "nofeatures", feats |-> << >> ],
      [ kind |-> "features", feats |-> << F_short, F_longarea >> ] }
    \cup { [ kind |-> "features", feats |-> [ i \in 1..n |-> f ] ] :
             n \in 0..MaxFeats, f \in { F_short, F_longarea, F_longevent } }

Init_GA ==
    /\ pc = "get_alerts"
    /\ pairs \in GaArgs
    /\ nws = NoResponse
    /\ tail = << >>
    /\ res = NoResult
    /\ out = << >>
    /\ ProcessIdle

\* line 74: make_nws_request returns
GA_Request ==
    /\ pc = "get_alerts"
    /\ nws' \in GaResponses
    /\ pc' = "ga_requested"
    /\ UNCHANGED << pairs, tail, res, out >>
    /\ ProcessUntouched

\* lines 76-98: get_alerts returns its text
GA_Return ==
    /\ pc = "ga_requested"
    /\ out' = get_alerts(pairs, nws)
    /\ pc' = "ga_returned"
    /\ UNCHANGED << pairs, tail, res, nws >>
    /\ ProcessUntouched

Next_GA == GA_Request \/ GA_Return

SpecGA == Init_GA /\ [][Next_GA]_vars

----------------------------------------------------------------------------
(* Properties                                                               *)

\* C1: on every exit path of the process, close_all_sessions has been invoked
\* exactly once if open_weather_session returned a session, and never
\* otherwise.
C1_ClosedExactlyOnce ==
    pc = "done" => closeCalls = (IF session # NoSession THEN 1 ELSE 0)

\* C2: when call_tool or agent.run raises an error while a line is handled,
\* the error is printed inline (with the tool name for a tool call), nothing
\* is released, no exception leaves the loop, and the loop awaits input again.
C2_FailureIsLocal ==
    [][ ( /\ linesRead' = linesRead + 1
          /\ lastOp'.op \in { "call_tool", "run" }
          /\ lastOp'.outcome = "Exception" )
        => ( /\ pc' = "input"
             /\ closeCalls' = closeCalls
             /\ sessions' = sessions
             /\ exc' = exc
             /\ IF lastOp'.op = "call_tool"
                THEN /\ printed'.kind = "tool_error"
                     /\ printed'.tool = tool'
                     /\ tool' # << >>
                ELSE printed'.kind = "agent_error" ) ]_vars

\* a tool call failed on the second line and the loop awaits the next line
C2_Witness ==
    /\ pc = "input"
    /\ linesRead = 2
    /\ lastOp = [ op |-> "call_tool", outcome |-> "Exception" ]
    /\ printed.kind = "tool_error"
    /\ printed.tool = W_ping
    /\ closeCalls = 0

\* C3: once the loop is entered, no failure of an operation performed for an
\* input line (call_tool, tool_result_to_str, agent.run,
\* clear_conversation_history) ends the loop: the loop awaits input again.
C3_NoFailureEndsLoop ==
    [][ ( /\ linesRead' = linesRead + 1
          /\ lastOp'.outcome = "Exception" )
        => pc' = "input" ]_vars

\* the direct-call syntax, stated on the characters: an @, word characters, a
\* dot, and at least one word character
C4_DirectSyntax(u) ==
    /\ Len(u) >= 4
    /\ u[1] = "@"
    /\ \E d \in 3..(Len(u) - 1) :
         /\ u[d] = "."
         /\ \A x \in 2..(d - 1) : IsWord(u[x])
         /\ IsWord(u[d + 1])

\* the class of a trimmed line, in the order exit/quit, clear, help,
\* direct-call, agent-call
C4_Class(u) ==
    IF Lower(u) = W_exit \/ Lower(u) = W_quit THEN "exit"
    ELSE IF Lower(u) = W_clear THEN "clear"
    ELSE IF Lower(u) = W_help THEN "help"
    ELSE IF C4_DirectSyntax(u) THEN "direct"
    ELSE "agent"

C4_Delta(class, c) == IF class = c THEN 1 ELSE 0

\* C4: every line read falls in exactly one class, decided on the trimmed line,
\* and triggers that class's backend action and no other; "@weather.ping" is a
\* direct call of tool ping with empty arguments.
C4_ClassifiedOnce ==
    [][ linesRead' = linesRead + 1
        => LET class == C4_Class(user_input')
           IN  /\ calls'.clear = calls.clear + C4_Delta(class, "clear")
               /\ calls'.call_tool = calls.call_tool + C4_Delta(class, "direct")
               /\ calls'.run = calls.run + C4_Delta(class, "agent")
               /\ class = "exit" => pc' = "finally" /\ printed'.kind = "ending"
               /\ class = "help" => pc' = "input" /\ printed'.kind = "help"
               /\ class = "clear" <=> lastOp'.op = "clear"
               /\ class = "agent" <=> lastOp'.op = "run"
               /\ class = "direct" <=> lastOp'.op \in { "call_tool", "tool_result_to_str" }
               /\ user_input' = << "@", "w", "e", "a", "t", "h", "e", "r", ".", "p", "i", "n", "g" >>
                    => tool' = W_ping /\ pairs' = EmptyMap ]_vars

\* "@weather.ping" was dispatched as one call of tool ping with no arguments
C4_Witness ==
    /\ user_input = << "@", "w", "e", "a", "t", "h", "e", "r", ".", "p", "i", "n", "g" >>
    /\ tool = W_ping
    /\ pairs = EmptyMap
    /\ lastOp.op = "call_tool"
    /\ calls = [ call_tool |-> 1, run |-> 0, clear |-> 0 ]

\* C5: when session acquisition fails the loop is never entered (no line is
\* read, no call_tool, no agent.run); call_tool is invoked only on a session
\* open_weather_session returned, before any release.
C5_NoLoopWithoutSession ==
    [][ /\ exc' \in { "NoSession", "BootstrapError" }
          => ( /\ pc' = "done"
               /\ session' = NoSession
               /\ linesRead' = 0
               /\ calls' = NoCalls )
        /\ calls'.call_tool # calls.call_tool
          => ( /\ session \in Handles
               /\ usedSession' = session
               /\ closeCalls = 0 ) ]_vars

\* acquisition failed after every fallback was tried, and nothing else ran
C5_Witness ==
    /\ exc = "NoSession"
    /\ pc = "done"
    /\ Len(probes) = 1 + Len(ConnectNames)
    /\ linesRead = 0
    /\ calls = NoCalls

\* C6: with client.sessions non-empty, open_weather_session returns the first
\* session and invokes neither create_session nor a connect-like operation.
C6_ExistingReturned ==
    [][ ( pc = "open_weather_session" /\ sessions # << >> )
        => ( /\ session' = sessions[1]
             /\ pc' = "setup"
             /\ probes' = << >>
             /\ sessions' = sessions ) ]_vars

\* the first of two existing sessions was returned, nothing was invoked
C6_Witness ==
    /\ pc = "setup"
    /\ sessions = << "s2", "s1" >>
    /\ session = "s2"
    /\ probes = << >>

\* open_weather_session has ended: it returned, or its exception left the process
C7_Ended == pc = "setup" \/ exc \in { "NoSession", "BootstrapError" }

\* the client had no session and no create_session
C7_NoCreate == probes # << >> /\ probes[1] = Probe("create_session", "absent")

\* C7 as claimed: the no-session error whenever sessions is empty, there is no
\* create_session and every connect-like operation the client exposes leaves
\* sessions empty; a session in every other terminating run.
C7_NoSessionIffNothingWorks ==
    C7_Ended =>
        IF /\ C7_NoCreate
           /\ \A i \in 2..Len(probes) : probes[i].outcome # "populated"
        THEN exc = "NoSession"
        ELSE session \in Handles

\* C7, amended: an operation that raises ends the run with its own error;
\* without one, the no-session error exactly when there is no create_session
\* and every connect-like operation is absent or leaves sessions empty, and
\* a session otherwise.
C7_NoSessionOrRaisedOrSession ==
    C7_Ended =>
        IF \E i \in 1..Len(probes) : probes[i].outcome = "raised"
        THEN exc = "BootstrapError" /\ session = NoSession
        ELSE IF /\ C7_NoCreate
                /\ \A i \in 2..Len(probes) : probes[i].outcome \in { "absent", "noop" }
        THEN /\ exc = "NoSession"
             /\ session = NoSession
             /\ [ i \in 1..Len(ConnectNames) |-> probes[i + 1].op ] = ConnectNames
        ELSE session \in Handles /\ exc = "none"

\* the no-session error, after an operation ran and left sessions empty
C7_Witness ==
    /\ exc = "NoSession"
    /\ C7_NoCreate
    /\ \E i \in 2..Len(probes) : probes[i].outcome = "noop"
    /\ \E i \in 2..Len(probes) : probes[i].outcome = "absent"

\* C8: the text tool_result_to_str returns never exceeds 3000 characters.
C8_AtMostCap == pc = "tr_returned" => Len(out) <= 3000

\* the matches of the key=value pattern in the tail, and the one that decides
\* a key: the last with that key
KvLast(ms, i) == \A j \in (i + 1)..Len(ms) : ms[j].k # ms[i].k

\* C9: a double-quoted value is stored as the string between the quotes, with
\* no boolean or integer coercion.
C9_QuotedStaysString ==
    pc = "kv_returned" =>
        LET ms == KvFindIter(tail, 1)
        IN  \A i \in 1..Len(ms) :
              (ms[i].quoted /\ KvLast(ms, i))
                => pairs[ms[i].k] = VStr(SubSeq(ms[i].raw, 2, Len(ms[i].raw) - 1))

\* the value claimed for an unquoted text: a boolean, else an integer, else
\* the text unchanged
C10_Expected(raw) ==
    IF Lower(raw) = << "t", "r", "u", "e" >> THEN VBool(TRUE)
    ELSE IF Lower(raw) = << "f", "a", "l", "s", "e" >> THEN VBool(FALSE)
    ELSE IF IntParse(raw).ok THEN VInt(IntParse(raw).n)
    ELSE VStr(raw)

\* C10: an unquoted value is stored as a boolean when it is true or false in
\* any case, else as an integer when it parses as one, else unchanged.
C10_UnquotedCoerced ==
    pc = "kv_returned" =>
        LET ms == KvFindIter(tail, 1)
        IN  \A i \in 1..Len(ms) :
              (~ms[i].quoted /\ KvLast(ms, i))
                => pairs[ms[i].k] = C10_Expected(ms[i].raw)

\* the keys of the key=value fragments of a tail
C11_Keys(ms) == { ms[i].k : i \in 1..Len(ms) }

\* the rightmost fragment with key k
C11_Rightmost(ms, k) ==
    CHOOSE i \in 1..Len(ms) :
        ms[i].k = k /\ \A j \in 1..Len(ms) : ms[j].k = k => j <= i

\* C11: the mapping parse_kv_pairs returns has exactly the keys of the
\* key=value fragments of the tail, each once, and the value of a key is the
\* coerced value of the rightmost fragment with that key.
C11_LastOccurrenceWins ==
    pc = "kv_returned" =>
        LET ms == KvFindIter(tail, 1)
        IN  /\ DOMAIN pairs = C11_Keys(ms)
            /\ \A k \in C11_Keys(ms) :
                  pairs[k] = KvCoerce(KvUnquote(ms[C11_Rightmost(ms, k)].raw))

\* " a=5 a=CA" was parsed: the key a occurs twice and holds the second value
C11_Witness ==
    /\ pc = "kv_returned"
    /\ tail = << " ", "a", "=", "5", " ", "a", "=", "C", "A" >>
    /\ pairs = [ x \in { << "a" >> } |-> VStr(<< "C", "A" >>) ]

RECURSIVE C12_Tokens(_, _)
\* str.split(): the whitespace-separated tokens of s[i..]
C12_Tokens(s, i) ==
    LET a == FirstNot(s, i, SpaceChars)
    IN  IF a > Len(s) THEN << >>
        ELSE LET b == NonSpaceRunEnd(s, a)
             IN  << SubSeq(s, a, b) >> \o C12_Tokens(s, b + 1)

\* the token has the form key=value with key k: k, not preceded by a word
\* character, then an = sign, then at least one character
C12_Gives(t, k) ==
    \E i \in 1..Len(t) :
        /\ i + Len(k) < Len(t)
        /\ SubSeq(t, i, i + Len(k) - 1) = k
        /\ t[i + Len(k)] = "="
        /\ (i = 1 \/ ~IsWord(t[i - 1]))

\* the token has the form key=value: a word character, an = sign, a character
C12_HasForm(t) == \E i \in 2..(Len(t) - 1) : IsWord(t[i - 1]) /\ t[i] = "="

\* C12: parse_kv_pairs returns a mapping for every tail and never raises; each
\* entry comes from a token of the form key=value, so tokens without that form
\* add nothing, and a tail without such a token yields the empty mapping.
C12_TotalAndPermissive ==
    /\ pc # "kv_raised"
    /\ pc = "kv_returned" =>
          LET ts == C12_Tokens(tail, 1)
              formed == { i \in 1..Len(ts) : C12_HasForm(ts[i]) }
          IN  /\ \A k \in DOMAIN pairs : \E i \in formed : C12_Gives(ts[i], k)
              /\ formed = {} => pairs = EmptyMap

\* " !!! a=CA" was parsed: the punctuation is dropped, int("CA") failed and
\* was caught, and the only entry is a
C12_Witness ==
    /\ pc = "kv_returned"
    /\ tail = << " ", "!", "!", "!", " ", "a", "=", "C", "A" >>
    /\ pairs = [ x \in { << "a" >> } |-> VStr(<< "C", "A" >>) ]

\* the result is a mapping or yields a mapping view
C13_IsMapping(r) == r.kind = "dict" \/ (r.kind = "obj" /\ r.view # "none")

\* the content field, else outputs, else data: the first that is present
C13_Field(data) ==
    IF HasKey(data, K_content) THEN GetOr(data, K_content, JNull)
    ELSE IF HasKey(data, K_outputs) THEN GetOr(data, K_outputs, JNull)
    ELSE GetOr(data, K_data, JNull)

\* a text part: a mapping of type text whose text is a string
C13_IsTextPart(p) ==
    /\ p.pk = "dict"
    /\ GetOr(p.entries, K_type, JNull) = JStr(S_text)
    /\ GetOr(p.entries, K_text, JNull).t = "str"

\* the text values of the parts, joined by newlines and trimmed
C13_Joined(l) == Strip(JoinLines([ i \in 1..Len(l) |-> GetOr(l[i].entries, K_text, JNull).s ], 1))

\* C13: for a mapping whose content field (else outputs, else data) is a
\* sequence of text parts with some text in them, tool_result_to_str returns
\* the parts' text values joined by newlines and trimmed.
C13_TextPartsJoined ==
    (pc = "tr_returned" /\ C13_IsMapping(res)) =>
        LET f == C13_Field(res.data)
        IN  ( /\ f.t = "list"
              /\ Len(f.items) > 0
              /\ \A i \in 1..Len(f.items) : C13_IsTextPart(f.items[i])
              /\ Len(C13_Joined(f.items)) > 0 )
            => out = C13_Joined(f.items)

\* the value has no text to extract: it is not a sequence, or none of its
\* elements has a text
C14_Textless(f) ==
    \/ f.t # "list"
    \/ \A i \in 1..Len(f.items) :
          \/ f.items[i].pk = "scalar"
          \/ /\ f.items[i].pk = "dict"
             /\ ~HasKey(f.items[i].entries, K_text)

\* the mapping has no content/outputs/data text to extract
C14_NoText(data) ==
    \A k \in { K_content, K_outputs, K_data } : C14_Textless(GetOr(data, k, JNull))

\* C14: for a mapping or mapping view with no text to extract, the empty
\* mapping included, tool_result_to_str returns the serialization of the
\* mapping cut to 3000 characters; the default string representation is
\* returned only when there is no mapping.
C14_SerializedFallback ==
    (pc = "tr_returned" /\ C13_IsMapping(res) /\ C14_NoText(res.data))
        => out = Truncate(JsonDumps(res.data), 3000)

\* C15: when the input ends at the prompt, the process terminates normally,
\* as after exit or quit: the session is released and the exit code is 0, with
\* no unhandled error.
C15_EofIsNormalExit ==
    (pc = "done" /\ exc = "EOF")
        => (sessions = << >> /\ closeCalls = 1 /\ ExitCode = 0)

\* C16: no retries.  No bootstrap operation is invoked twice, the tool listing
\* operation is invoked at most once (help invokes none), every line causes at
\* most one call_tool or agent.run, a failed one included, and none is made
\* without a line.
C16_NoRetries ==
    [][ /\ \A i \in 1..Len(probes') : \A j \in 1..Len(probes') :
              i # j => probes'[i].op # probes'[j].op
        /\ listCalls' <= 1
        /\ printed'.kind = "help" => listCalls' = listCalls
        /\ linesRead' = linesRead => calls' = calls
        /\ linesRead' = linesRead + 1 =>
              /\ calls'.call_tool + calls'.run <= calls.call_tool + calls.run + 1
              /\ calls'.call_tool >= calls.call_tool
              /\ calls'.run >= calls.run ]_vars

\* the agent failed on the first line: it was run once, and the loop goes on
C16_Witness ==
    /\ pc = "input"
    /\ linesRead = 1
    /\ lastOp = [ op |-> "run", outcome |-> "Exception" ]
    /\ calls = [ call_tool |-> 0, run |-> 1, clear |-> 0 ]
    /\ listCalls = 1

\* the names the claim expects on the line: of each descriptor its name, else
\* its tool, else its text
C17_Listed(tools) ==
    ToolsPrefix \o LtJoin([ i \in 1..Len(tools) |->
                              IF tools[i].name.t = "str" THEN tools[i].name
                              ELSE IF tools[i].tool.t = "str" THEN tools[i].tool
                              ELSE JStr(tools[i].repr) ], 1)

\* a step of the name extraction fails: a name that is not a string
C17_ExtractionFails(tools) ==
    \E i \in 1..Len(tools) : tools[i].name.t \notin { "null", "str" }

\* C17: the tool listing never aborts the startup.  Without a listing
\* operation, with an empty listing, or when the listing or the name
\* extraction fails, the cached line is "Tools: get_alerts, ping" and the loop
\* is entered; when list_tools, get_tools or the tools property exists and
\* yields descriptors, the cached line lists their names.
C17_CatalogPrimed ==
    [][ (pc = "list_call" \/ pc = "list_names") =>
          ( /\ (pc' = "done" => exc' = "Interrupt")
            /\ (pc' = "input" =>
                   tool_list_line' =
                     (IF \/ catalog.op = "none"
                         \/ catalog.value = << >>
                         \/ (pc = "list_call" /\ catalog.form = "method")
                         \/ C17_ExtractionFails(catalog.value)
                      THEN FallbackLine
                      ELSE C17_Listed(catalog.value))) ) ]_vars

\* the order the claim gives for the connect-like operations
C18_Order == << "connect", "connect_all", "open_all_sessions", "ensure_sessions",
               "initialize" >>

\* C18: the order of the bootstrap strategies.  Existing sessions come first
\* and nothing is invoked then; otherwise create_session, when the client has
\* it, is the only operation invoked and its session is returned; otherwise
\* the connect-like names are examined in the order connect, connect_all,
\* open_all_sessions, ensure_sessions, initialize, client.sessions is checked
\* after each call, and when a session has appeared it is returned and no
\* later operation is invoked.
C18_StrategyOrder ==
    /\ probes # << >> => probes[1].op = "create_session"
    /\ (probes # << >> /\ probes[1].outcome # "absent") =>
          /\ Len(probes) = 1
          /\ probes[1].outcome = "created" =>
                (pc = "setup" /\ session = "s1" /\ sessions = << "s1" >>)
    /\ Len(probes) <= 1 + Len(C18_Order)
    /\ \A i \in 2..Len(probes) : probes[i].op = C18_Order[i - 1]
    /\ \A i \in 2..(Len(probes) - 1) : probes[i].outcome \in { "absent", "noop" }
    /\ pc = "connect" =>
          /\ sessions = << >>
          /\ \A i \in 2..Len(probes) : probes[i].outcome \in { "absent", "noop" }
    /\ (probes # << >> /\ probes[Len(probes)].outcome = "populated") =>
          (pc = "setup" /\ session = sessions[1])
    /\ (pc = "setup" /\ probes = << >>) => session = sessions[1]

\* no create_session, no connect, connect_all left sessions empty, and
\* open_all_sessions opened the session that was returned
C18_Witness ==
    /\ pc = "setup"
    /\ session = "s1"
    /\ probes = << Probe("create_session", "absent"), Probe("connect", "absent"),
                   Probe("connect_all", "noop"), Probe("open_all_sessions", "populated") >>

\* position of the first dot of a line
C19_Dot(u) == CHOOSE d \in 1..Len(u) : u[d] = "." /\ \A x \in 1..(d - 1) : u[x] # "."

\* the tool name T of a line @S.T tail: the word after the first dot
C19_Tool(u) == SubSeq(u, C19_Dot(u) + 1, WordRunEnd(u, C19_Dot(u) + 1))

\* the tail of a line @S.T tail: what follows the tool name
C19_Tail(u) == SubSeq(u, WordRunEnd(u, C19_Dot(u) + 1) + 1, Len(u))

\* the call the claim expects for each trimmed line that holds a dot: tool T
\* and the arguments parsed from the tail
C19_Call ==
    [ u \in { Strip(l) : l \in { x \in Lines : \E i \in 1..Len(x) : x[i] = "." } } |->
        [ tool |-> C19_Tool(u), args |-> parse_kv_pairs(C19_Tail(u)) ] ]

\* C19: the server name of a direct call does not route.  Every direct call
\* is call_tool(T, parse_kv_pairs(tail)) on the session acquired at startup,
\* whatever S is: the call depends on what follows the first dot only, and
\* the session of the loop never changes.
C19_ServerIgnored ==
    [][ /\ calls'.call_tool # calls.call_tool =>
              /\ usedSession' = session
              /\ user_input' \in DOMAIN C19_Call
              /\ tool' = C19_Call[user_input'].tool
              /\ pairs' = C19_Call[user_input'].args
        /\ pc \in { "list_tools", "list_call", "list_names", "input", "finally" }
              => session' = session
        /\ (usedSession # NoSession /\ usedSession' # NoSession)
              => usedSession' = usedSession ]_vars

\* "@other.ping" was called on the session acquired at startup, the first of
\* the two sessions of the client, like "@weather.ping" before it
C19_Witness ==
    /\ user_input = << "@", "o", "t", "h", "e", "r", ".", "p", "i", "n", "g" >>
    /\ linesRead = 2
    /\ calls.call_tool = 2
    /\ lastOp.op = "call_tool"
    /\ tool = W_ping
    /\ sessions = << "s2", "s1" >>
    /\ session = "s2"
    /\ usedSession = "s2"

\* the limit the claim expects: an integer-convertible value clamped into
\* 1..20, the default 5 for any other value
C20_Limit(v) ==
    IF GaInt(v).ok
    THEN (IF GaInt(v).n < 1 THEN 1 ELSE IF GaInt(v).n > 20 THEN 20 ELSE GaInt(v).n)
    ELSE 5

\* the alert lines of a text: its bullets
C20_Lines(text) == Cardinality({ i \in 1..Len(text) : text[i] = BULLET })

\* C20: for every limit argument, _to_int yields the limit clamped into 1..20,
\* or 5 when it is not convertible; get_alerts emits at most 20 alert lines,
\* and the text it returns has at most 3000 characters.
C20_OutputBounded ==
    pc = "ga_returned" =>
        /\ K_limit \in DOMAIN pairs =>
              /\ _to_int(pairs[K_limit], 5) = C20_Limit(pairs[K_limit])
              /\ C20_Lines(out) <= C20_Limit(pairs[K_limit])
        /\ C20_Lines(out) <= 20
        /\ Len(out) <= 3000

====
